---- MODULE Spec2Model ----
(***************************************************************************)
(* Rule Catalog (trace-engine/rules/rules_config.py) and Threshold         *)
(* Adjuster (trace-engine/rules/threshold_adjuster.py), with the files     *)
(* they read and write: interaction_logs.json, post_decision_trace.json    *)
(* and rules_config.py itself; the writers of the two JSON files           *)
(* (machine_explainer.py, ui/app.py, test_threshold_adjustment.py).        *)
(* Further: the Rule Evaluation Engine called by run_live_simulation.py,   *)
(* the severity level of machine_explainer.py, and the explanation         *)
(* pipeline started by mt-llm/run_full_pipeline.py and by ui/app.py.       *)
(*                                                                         *)
(* Numbers.  Every float of the program is modelled as an integer count    *)
(* of thousandths (4.0 is 4000, 0.05 is 50), or as the value NaN, which    *)
(* json.load accepts in a trace file.  Products with 1.05 and 1.5 are      *)
(* exact in units of 1e-5.  round(x, 2) rounds to the nearest hundredth;   *)
(* when x lies exactly halfway in decimal, the binary double is a little   *)
(* above or below the tie and Python rounds accordingly (4.5*1.05 gives    *)
(* 4.73, 4.1*1.05 gives 4.3).  The direction is listed for the products    *)
(* whose double is known and is an input for every other tie.              *)
(***************************************************************************)
EXTENDS Integers, Sequences, FiniteSets, TLC

VARIABLES
    logs,           \* interaction_logs.json
    trace_file,     \* post_decision_trace.json
    RULES,          \* rules_config.RULES of the adjuster process
    disk,           \* rules_config.py on disk
    rejection,      \* process_rejection: the entry found (local `rejection`)
    alert_context,  \* process_rejection: the trace used (local `alert_context`)
    adjustments,    \* ThresholdAdjuster.adjustments (audit trail)
    result,         \* what main() returned
    err,            \* how the last run ended
    update_calls,   \* calls of rules_config.update_threshold in the last run
    persist_calls,  \* calls of rules_config.save_rules_to_file in the last run
    runs,           \* number of adjuster runs so far
    session_state,  \* st.session_state of the dashboard (ui/app.py)
    engine,         \* the calls of RuleEngine.evaluate and what they returned
    explainer,      \* a score and the level MachineExplainer gives it
    pipeline        \* one run of the mt-llm pipeline: its stages and result

vars == <<logs, trace_file, RULES, disk, rejection, alert_context,
          adjustments, result, err, update_calls, persist_calls, runs,
          session_state, engine, explainer, pipeline>>

runVars == <<rejection, alert_context, adjustments, result, err,
             update_calls, persist_calls, runs>>

\* the state of the engine, the explainer and the pipeline
auxVars == <<engine, explainer, pipeline>>

\* the files and the catalog
fileVars == <<logs, trace_file, RULES, disk>>

----------------------------------------------------------------------------
(* Bounds *)

MaxLog  == 2     \* entries the feedback log may hold
MaxRuns == 2     \* adjuster runs in one behaviour
MaxOld  == 40    \* largest old threshold (thousandths) of the small range
MaxRv   == 60    \* largest rejected value (thousandths) of the small range
MaxBeyond == 50  \* thousandths a score may lie under 0.0 or over 1.0
MaxPipelines == 2  \* runs of the explanation pipeline in one behaviour

----------------------------------------------------------------------------
(* Values *)

\* float('nan'): json.load accepts the literal NaN.
NaN == 0 - 1000000000
\* A key that is absent from a JSON object (dict.get gives None).
None == 0 - 1000000001
\* An absent or empty string: both are falsy in `not component_id`.
NoStr == ""

\* threshold_adjuster.py:19-20, in hundredths
SAFETY_MARGIN == 5
MAX_INCREASE_RATIO == 50

\* x * (1 + ratio): thousandths in, units of 1e-5 out.  nan * k is nan.
Times(x, ratio) == IF x = NaN THEN NaN ELSE x * (100 + ratio)

\* Python's > and < on floats: every comparison with nan is False.
Gt(a, b) == a # NaN /\ b # NaN /\ a > b
Lt(a, b) == a # NaN /\ b # NaN /\ a < b

TieDirs == {"down", "up"}

\* The products operand * (1 + ratio) that are decimal ties and whose double
\* is known.  Above the tie: 4.5 * 1.05 = 4.7250000000000005 and
\* 0.1 * 1.05 = 0.10500000000000001.  Below the tie:
\* 4.1 * 1.05 = 4.3049999999999997, 0.01 * 1.5 = 0.014999999999999999 and
\* 0.03 * 1.5 = 0.044999999999999998.
ProductsAbove == { <<4500, SAFETY_MARGIN>>, <<100, SAFETY_MARGIN>> }
ProductsBelow == { <<4100, SAFETY_MARGIN>>, <<10, MAX_INCREASE_RATIO>>,
                   <<30, MAX_INCREASE_RATIO>> }

\* The direction round() takes for the double x * (1 + ratio).
TieOf(x, ratio, tie) ==
    IF <<x, ratio>> \in ProductsAbove THEN "up"
    ELSE IF <<x, ratio>> \in ProductsBelow THEN "down"
    ELSE tie

\* A plausible slip: the value is cut to 2 decimals, not rounded.
round2_cut(x, tie) ==
    IF x = NaN THEN NaN ELSE 10 * (x \div 1000)

\* round(x, 2) for x in units of 1e-5, result in thousandths.
round2(x, tie) ==
    IF x = NaN THEN NaN
    ELSE LET q == x \div 1000
             r == x % 1000
         IN  IF r < 500 THEN 10 * q
             ELSE IF r > 500 THEN 10 * (q + 1)
             ELSE IF tie = "up" THEN 10 * (q + 1) ELSE 10 * q

\* A plausible slip: the margin is subtracted instead of added.
calculate_new_threshold_below(old_threshold, rejected_value, tie) ==
    LET new_threshold == IF rejected_value = NaN THEN NaN
                         ELSE rejected_value * (100 - SAFETY_MARGIN)
        max_allowed   == Times(old_threshold, MAX_INCREASE_RATIO)
    IN  round2(IF Gt(new_threshold, max_allowed) THEN max_allowed
               ELSE new_threshold, tie)

\* ThresholdAdjuster.calculate_new_threshold
calculate_new_threshold(old_threshold, rejected_value, tie) ==
    LET new_threshold == Times(rejected_value, SAFETY_MARGIN)
        max_allowed   == Times(old_threshold, MAX_INCREASE_RATIO)
    IN  IF Gt(new_threshold, max_allowed)
        THEN round2(max_allowed, TieOf(old_threshold, MAX_INCREASE_RATIO, tie))
        ELSE round2(new_threshold, TieOf(rejected_value, SAFETY_MARGIN, tie))

\* RuleEngine.evaluate has not been called
NoEval == [calls |-> 0]
\* no score has been given a level
NoLevel == [applied |-> FALSE]
\* the pipeline has not been started; final_recommendation.json is absent
NoPipeline ==
    [stage |-> "idle", runner |-> "", count |-> 0, recommendation |-> FALSE,
     report |-> "", events |-> << >>]

----------------------------------------------------------------------------
(* The Rule Catalog *)

Rule(name, feature, threshold, delta) ==
    [rule |-> name, feature |-> feature, comparison |-> ">",
     threshold |-> threshold, confidence_delta |-> delta]

\* rules_config.py:1-92
InitialRULES ==
    [c \in {"PUMP", "CONVEYOR", "COMPRESSOR"} |->
       CASE c = "PUMP" ->
              << Rule("PUMP_VIBRATION_CRITICAL", "vibration_rms", 4000, 350),
                 Rule("PUMP_TEMP_SPIKE", "temperature_delta", 5000, 300),
                 Rule("PUMP_OVERHEAT", "temperature_c", 95000, 400),
                 Rule("PUMP_HIGH_LOAD", "load_avg", 85000, 200) >>
         [] c = "CONVEYOR" ->
              << Rule("CONVEYOR_VIB_TRENDING", "vibration_trend", 1500, 250),
                 Rule("CONVEYOR_MOTOR_HEAT", "temperature_c", 80000, 300),
                 Rule("CONVEYOR_LOAD_PEAK", "load_avg", 90000, 200),
                 Rule("CONVEYOR_VIB_SPIKE", "vibration_delta", 800, 200) >>
         [] c = "COMPRESSOR" ->
              << Rule("COMP_DISCHARGE_TEMP", "temperature_c", 50000, 200),
                 Rule("COMP_VIB_INSTABILITY", "vibration_rms", 7440, 500),
                 Rule("COMP_RAPID_WARMING", "temperature_delta", 5570, 200),
                 Rule("COMP_OVERLOAD", "load_avg", 98280, 350) >> ]

\* Index of the first rule of the list named rule_name, 0 if there is none
\* (the loop `for rule in RULES[component_id]`).
RECURSIVE FirstMatch(_, _, _)
FirstMatch(rules, rule_name, i) ==
    IF i > Len(rules) THEN 0
    ELSE IF rules[i].rule = rule_name THEN i
    ELSE FirstMatch(rules, rule_name, i + 1)

\* A plausible slip: the assignment is not guarded by the name test, so
\* every rule of the component gets the new threshold.
update_threshold_all(cat, component_id, rule_name, new_threshold) ==
    IF component_id \notin DOMAIN cat
    THEN [ok |-> FALSE, RULES |-> cat]
    ELSE IF FirstMatch(cat[component_id], rule_name, 1) = 0
    THEN [ok |-> FALSE, RULES |-> cat]
    ELSE [ok |-> TRUE,
          RULES |-> [cat EXCEPT ![component_id] =
                       [j \in 1..Len(@) |->
                          [@[j] EXCEPT !.threshold = new_threshold]]]]

\* rules_config.update_threshold: the returned bool and the catalog after it
update_threshold(cat, component_id, rule_name, new_threshold) ==
    IF component_id \notin DOMAIN cat
    THEN [ok |-> FALSE, RULES |-> cat]
    ELSE LET i == FirstMatch(cat[component_id], rule_name, 1)
         IN  IF i = 0
             THEN [ok |-> FALSE, RULES |-> cat]
             ELSE [ok |-> TRUE,
                   RULES |-> [cat EXCEPT ![component_id][i].threshold =
                                            new_threshold]]

\* rules_config.get_threshold (None when not found)
get_threshold(cat, component_id, rule_name) ==
    IF component_id \notin DOMAIN cat THEN None
    ELSE LET i == FirstMatch(cat[component_id], rule_name, 1)
         IN  IF i = 0 THEN None ELSE cat[component_id][i].threshold

----------------------------------------------------------------------------
(* rules_config.py on disk *)

\* json.dumps of a float: repr(), sign, integer part and fraction digits;
\* nan is written as the bare word NaN.
JsonNumber(x) ==
    IF x = NaN THEN [kind |-> "NaN", neg |-> FALSE, whole |-> 0, frac |-> 0]
    ELSE LET a == IF x < 0 THEN 0 - x ELSE x
         IN  [kind |-> "num", neg |-> x < 0,
              whole |-> a \div 1000, frac |-> a % 1000]

\* The value Python gives a numeric literal of the file when it imports it.
PyNumber(tok) ==
    IF tok.neg THEN 0 - (tok.whole * 1000 + tok.frac)
    ELSE tok.whole * 1000 + tok.frac

\* "RULES = " + json.dumps(RULES, indent=4)
JsonDumps(cat) ==
    [c \in DOMAIN cat |->
       [j \in 1..Len(cat[c]) |->
          [cat[c][j] EXCEPT !.threshold = JsonNumber(@),
                            !.confidence_delta = JsonNumber(@)]]]

\* The file can be imported: it is whole and every name in it is defined
\* (the word NaN is not a Python name: NameError).
Importable(file) ==
    /\ file.state = "whole"
    /\ \A c \in DOMAIN file.text : \A j \in 1..Len(file.text[c]) :
          file.text[c][j].threshold.kind = "num"

\* RULES as the import of the file builds it.
LoadRules(file) ==
    [c \in DOMAIN file.text |->
       [j \in 1..Len(file.text[c]) |->
          [file.text[c][j] EXCEPT !.threshold = PyNumber(@),
                                  !.confidence_delta = PyNumber(@)]]]

\* What the operating system does to the write of the file.
IOOutcomes == {"ok", "open_fails", "write_fails"}

\* rules_config.save_rules_to_file: the returned bool and the file after it.
\* open(filepath, 'w') truncates the file before f.write; a write that fails
\* leaves a prefix of the new content.
save_rules_to_file(cat, file, io) ==
    IF io = "open_fails" \/ file.state # "whole"
    THEN [ok |-> FALSE, disk |-> file]
    ELSE IF io = "write_fails"
    THEN [ok |-> FALSE, disk |-> [state |-> "partial", text |-> JsonDumps(cat)]]
    ELSE [ok |-> TRUE, disk |-> [state |-> "whole", text |-> JsonDumps(cat)]]

----------------------------------------------------------------------------
(* Decision traces *)

Step(rule, feature, feature_value, threshold, res) ==
    [rule |-> rule, feature |-> feature, feature_value |-> feature_value,
     threshold |-> threshold, result |-> res]

Trace(component_id, rules_triggered, reasoning_trace) ==
    [component_id |-> component_id, rules_triggered |-> rules_triggered,
     reasoning_trace |-> reasoning_trace]

\* PUMP alert: vibration fired; temperature_delta is falling (negative).
T_Pump ==
    Trace("PUMP", <<"PUMP_VIBRATION_CRITICAL">>,
          << Step("PUMP_VIBRATION_CRITICAL", "vibration_rms", 4500, 4000, "FIRED"),
             Step("PUMP_TEMP_SPIKE", "temperature_delta", 0 - 2000, 5000, "PASS") >>)
\* COMPRESSOR alert
T_Comp ==
    Trace("COMPRESSOR", <<"COMP_OVERLOAD">>,
          << Step("COMP_OVERLOAD", "load_avg", 99000, 98280, "FIRED") >>)
\* a reading of NaN in a step that did not fire
T_NaN ==
    Trace("PUMP", <<"PUMP_HIGH_LOAD">>,
          << Step("PUMP_OVERHEAT", "temperature_c", NaN, 95000, "PASS"),
             Step("PUMP_HIGH_LOAD", "load_avg", 86000, 85000, "FIRED") >>)
\* a step whose threshold is 0, between two ordinary steps
T_Zero ==
    Trace("PUMP", <<"PUMP_VIBRATION_CRITICAL">>,
          << Step("PUMP_VIBRATION_CRITICAL", "vibration_rms", 4100, 4000, "FIRED"),
             Step("PUMP_TEMP_SPIKE", "temperature_delta", 1000, 0, "FIRED"),
             Step("PUMP_OVERHEAT", "temperature_c", 96000, 95000, "FIRED") >>)
\* a rule the catalog does not have, and steps with missing fields
T_Gaps ==
    Trace("PUMP", <<"PUMP_HIGH_LOAD">>,
          << Step("PUMP_RETIRED_RULE", "flow", 3000, 2000, "FIRED"),
             Step("PUMP_OVERHEAT", "temperature_c", None, 95000, "PASS"),
             Step("PUMP_HIGH_LOAD", "load_avg", 86000, 85000, "FIRED") >>)
\* a rule the catalog does not have, then a step whose threshold is 0
T_GapsZero ==
    Trace("PUMP", <<"PUMP_HIGH_LOAD">>,
          << Step("PUMP_RETIRED_RULE", "flow", 3000, 2000, "FIRED"),
             Step("PUMP_TEMP_SPIKE", "temperature_delta", 1000, 0, "PASS"),
             Step("PUMP_HIGH_LOAD", "load_avg", 86000, 85000, "FIRED") >>)
\* a component the catalog does not have
T_Turbine ==
    Trace("TURBINE", <<"TURBINE_SPEED">>,
          << Step("TURBINE_SPEED", "rpm", 3000, 2000, "FIRED") >>)
\* no component_id
T_NoComponent ==
    Trace(NoStr, <<"PUMP_HIGH_LOAD">>,
          << Step("PUMP_HIGH_LOAD", "load_avg", 86000, 85000, "FIRED") >>)
\* no rule fired: rules_triggered is empty
T_NoneFired ==
    Trace("PUMP", << >>,
          << Step("PUMP_HIGH_LOAD", "load_avg", 84000, 85000, "PASS") >>)

\* the traces the dashboard exports while the model runs
TracePool == {T_Pump, T_Comp}

\* the traces post_decision_trace.json may hold at the start
InitialTraces == {T_Comp, T_NaN, T_Zero, T_Gaps, T_GapsZero, T_Turbine,
                  T_NoComponent, T_NoneFired}

\* the traces machine_explainer logs
LogTraces == {T_Pump}

\* longest reasoning trace of the model
MaxSteps == 3

\* post_decision_trace.json does not exist
NoFile == [wrapped |-> FALSE, trace |-> Trace(NoStr, << >>, << >>), exists |-> FALSE]

TraceFile(trace, wrapped) == [wrapped |-> wrapped, trace |-> trace, exists |-> TRUE]

----------------------------------------------------------------------------
(* interaction_logs.json *)

\* kind: "missing" (no file), "malformed" (not JSON), "notlist" (JSON, but
\* not a list) or "list"; entries is what the file holds, oldest first: the
\* list, the entries of a text that json.load refuses (a list cut short), or
\* the one entry written as an object outside a list.
LogFile(kind, entries) == [kind |-> kind, entries |-> entries]

Entry(timestamp, input_trace, output_explanation, user_feedback) ==
    [timestamp |-> timestamp, input_trace |-> input_trace,
     output_explanation |-> output_explanation,
     user_feedback |-> user_feedback]

\* the entry that a malformed or non-list log file holds at the start
OldEntry == Entry(1, T_Comp, "explanation", "Rejected")

\* find_latest_rejection returned None
NoEntry == [timestamp |-> 0]

\* A plausible slip: whatever entries the file holds are used, readable as
\* a list or not.
LoadedLogs_any(file) == file.entries

\* load_json(logs_path) followed by the test
\* `if not logs or not isinstance(logs, list): return None`
LoadedLogs(file) == IF file.kind = "list" THEN file.entries ELSE << >>

\* `for entry in reversed(logs)`: position of the first match met going
\* backward from position i, 0 if there is none.
RECURSIVE ScanBackward(_, _)
ScanBackward(entries, i) ==
    IF i = 0 THEN 0
    ELSE IF entries[i].user_feedback = "Rejected" THEN i
    ELSE ScanBackward(entries, i - 1)

\* A plausible slip: the scan runs oldest first.
RECURSIVE ScanForward(_, _)
ScanForward(entries, i) ==
    IF i > Len(entries) THEN 0
    ELSE IF entries[i].user_feedback = "Rejected" THEN i
    ELSE ScanForward(entries, i + 1)

find_latest_rejection_oldest(file) ==
    LET entries == LoadedLogs(file)
        i       == ScanForward(entries, 1)
    IN  IF i = 0 THEN NoEntry ELSE entries[i]

\* ThresholdAdjuster.find_latest_rejection
find_latest_rejection(file) ==
    LET entries == LoadedLogs(file)
        i       == ScanBackward(entries, Len(entries))
    IN  IF i = 0 THEN NoEntry ELSE entries[i]

----------------------------------------------------------------------------
(* The Threshold Adjuster *)

\* get_alert_context returned None
NoContext == [exists |-> FALSE]

\* A plausible rewrite: the context is the trace stored in the rejected entry.
get_alert_context_of_entry(file, entry) ==
    [exists |-> TRUE, trace |-> entry.input_trace]

\* ThresholdAdjuster.get_alert_context: the trace of post_decision_trace.json,
\* whether or not it is wrapped in {"input_trace": ...}; the entry found in
\* the log is not consulted.
get_alert_context(file, entry) ==
    IF ~file.exists THEN NoContext
    ELSE [exists |-> TRUE, trace |-> file.trace]

REASON == "User rejected alert - value now considered normal"

\* The state of the loop over reasoning_trace.  raised: the exception that
\* ended the loop, "" if none.
LoopState(cat, adj, calls, raised) ==
    [RULES |-> cat, adjustments |-> adj, update_calls |-> calls,
     raised |-> raised]

\* A plausible slip: the test `if success` is missing, so a record is
\* appended whether or not update_threshold changed anything.
RECURSIVE ProcessSteps_untested(_, _, _, _, _)
ProcessSteps_untested(steps, i, component_id, ties, st) ==
    IF i > Len(steps) THEN st
    ELSE
      LET step == steps[i]
      IN
      IF step.rule = NoStr \/ step.feature_value = None \/ step.threshold = None
      THEN ProcessSteps_untested(steps, i + 1, component_id, ties, st)
      ELSE
        LET new_threshold ==
                calculate_new_threshold(step.threshold, step.feature_value,
                                        ties[i])
        IN
        IF step.threshold = 0
        THEN [st EXCEPT !.raised = "ZeroDivisionError"]
        ELSE
          LET u    == update_threshold(st.RULES, component_id, step.rule,
                                       new_threshold)
              call == [component |-> component_id, rule |-> step.rule,
                       value |-> new_threshold, ok |-> u.ok,
                       before |-> st.RULES, after |-> u.RULES]
              rec  == [rule |-> step.rule, component |-> component_id,
                       feature |-> step.feature,
                       old_threshold |-> step.threshold,
                       new_threshold |-> new_threshold,
                       rejected_value |-> step.feature_value,
                       reason |-> REASON]
          IN  ProcessSteps_untested(steps, i + 1, component_id, ties,
                 LoopState(u.RULES, Append(st.adjustments, rec),
                           Append(st.update_calls, call), st.raised))

\* process_rejection, lines 141-175: the loop over the reasoning steps from
\* step i on.  ties[i] is the direction round() takes at a tie in step i.
RECURSIVE ProcessSteps(_, _, _, _, _)
ProcessSteps(steps, i, component_id, ties, st) ==
    IF i > Len(steps) THEN st
    ELSE
      LET step          == steps[i]
          rule_name     == step.rule
          feature_value == step.feature_value
          old_threshold == step.threshold
      IN
      IF rule_name = NoStr \/ feature_value = None \/ old_threshold = None
      THEN ProcessSteps(steps, i + 1, component_id, ties, st)
      ELSE
        LET new_threshold ==
                calculate_new_threshold(old_threshold, feature_value, ties[i])
        IN
        \* line 155 prints new_threshold/old_threshold
        IF old_threshold = 0
        THEN [st EXCEPT !.raised = "ZeroDivisionError"]
        ELSE
          LET u    == update_threshold(st.RULES, component_id, rule_name,
                                       new_threshold)
              call == [component |-> component_id, rule |-> rule_name,
                       value |-> new_threshold, ok |-> u.ok,
                       before |-> st.RULES, after |-> u.RULES]
              rec  == [rule |-> rule_name, component |-> component_id,
                       feature |-> step.feature,
                       old_threshold |-> old_threshold,
                       new_threshold |-> new_threshold,
                       rejected_value |-> feature_value,
                       reason |-> REASON]
          IN  ProcessSteps(steps, i + 1, component_id, ties,
                 LoopState(u.RULES,
                           IF u.ok THEN Append(st.adjustments, rec)
                           ELSE st.adjustments,
                           Append(st.update_calls, call),
                           st.raised))

\* A plausible slip: the test `if not rejection` is missing, so the trace
\* file is processed whether or not the log holds a rejection.
process_rejection_unguarded(cat, logfile, tracefile, ties) ==
    LET found   == find_latest_rejection(logfile)
        context == get_alert_context(tracefile, found)
        none    == LoopState(cat, << >>, << >>, "")
    IN
    IF ~context.exists
    THEN [rejection |-> found, alert_context |-> context, loop |-> none]
    ELSE IF context.trace.component_id = NoStr
            \/ context.trace.rules_triggered = << >>
    THEN [rejection |-> found, alert_context |-> context, loop |-> none]
    ELSE [rejection |-> found, alert_context |-> context,
          loop |-> ProcessSteps(context.trace.reasoning_trace, 1,
                                context.trace.component_id, ties, none)]

\* ThresholdAdjuster.process_rejection on the catalog cat.  made is the
\* returned bool (adjustments_made).
process_rejection(cat, logfile, tracefile, ties) ==
    LET found   == find_latest_rejection(logfile)
        context == get_alert_context(tracefile, found)
        none    == LoopState(cat, << >>, << >>, "")
    IN
    IF found = NoEntry
    THEN [rejection |-> found, alert_context |-> NoContext, loop |-> none]
    ELSE IF ~context.exists
    THEN [rejection |-> found, alert_context |-> context, loop |-> none]
    ELSE IF context.trace.component_id = NoStr
            \/ context.trace.rules_triggered = << >>
    THEN [rejection |-> found, alert_context |-> context, loop |-> none]
    ELSE [rejection |-> found, alert_context |-> context,
          loop |-> ProcessSteps(context.trace.reasoning_trace, 1,
                                context.trace.component_id, ties, none)]

\* A tie direction that no rounding of the trace uses is fixed to "down",
\* so that one run is not enumerated once per unused direction.
CanonicalTies(steps, ties) ==
    \A i \in 1..MaxSteps :
       \/ ties[i] = "down"
       \/ /\ i <= Len(steps)
          /\ steps[i].feature_value # None
          /\ steps[i].threshold # None
          /\ calculate_new_threshold(steps[i].threshold,
                                     steps[i].feature_value, "up")
               # calculate_new_threshold(steps[i].threshold,
                                         steps[i].feature_value, "down")

\* One run of the script threshold_adjuster.py: the import of rules_config
\* (RULES is built from the file), main(), and the end of the process.
main(io, ties) ==
    /\ runs < MaxRuns
    /\ CanonicalTies(trace_file.trace.reasoning_trace, ties)
    /\ runs' = runs + 1
    /\ UNCHANGED <<logs, trace_file, session_state, auxVars>>
    /\ IF ~Importable(disk)
       THEN /\ io = "ok"
            /\ err' = "ImportError"
            /\ rejection' = NoEntry
            /\ alert_context' = NoContext
            /\ adjustments' = << >>
            /\ result' = << >>
            /\ update_calls' = << >>
            /\ persist_calls' = << >>
            /\ UNCHANGED <<RULES, disk>>
       ELSE
         LET pr == process_rejection(LoadRules(disk), logs, trace_file, ties)
             lp == pr.loop
         IN
         /\ rejection' = pr.rejection
         /\ alert_context' = pr.alert_context
         /\ adjustments' = lp.adjustments
         /\ update_calls' = lp.update_calls
         /\ RULES' = lp.RULES
         /\ err' = lp.raised
         \* the outcome of a write that does not take place is fixed to "ok"
         /\ (lp.raised # "" \/ lp.adjustments = << >>) => io = "ok"
         /\ IF lp.raised = "" /\ lp.adjustments # << >>
            THEN \* save_changes()
                 LET s == save_rules_to_file(lp.RULES, disk, io)
                 IN  /\ disk' = s.disk
                     /\ persist_calls' = << [io |-> io, ok |-> s.ok] >>
                     /\ result' = IF s.ok THEN lp.adjustments ELSE << >>
            ELSE /\ disk' = disk
                 /\ persist_calls' = << >>
                 /\ result' = << >>

----------------------------------------------------------------------------
(* The writers of the two JSON files *)

\* ui/app.py export_trace_to_llm
export_trace_to_llm(trace) ==
    /\ trace_file' = TraceFile(trace, TRUE)
    /\ trace_file' # trace_file
    /\ UNCHANGED <<logs, RULES, disk, session_state>>
    /\ UNCHANGED <<runVars, auxVars>>

\* MachineExplainer.log_interaction: a missing, malformed or non-list log
\* is replaced by a log holding only the new entry.
log_interaction(input_trace, output_explanation) ==
    LET old == LoadedLogs(logs)
    IN  /\ Len(old) < MaxLog
        /\ logs' = LogFile("list",
                      Append(old, Entry(Len(old) + 1, input_trace,
                                        output_explanation, NoStr)))
        /\ UNCHANGED <<trace_file, RULES, disk, session_state>>
        /\ UNCHANGED <<runVars, auxVars>>

\* test_threshold_adjustment.create_test_rejection: json.load of a missing
\* or malformed file raises, and so does append on a non-list.
create_test_rejection ==
    /\ logs.kind = "list"
    /\ trace_file.exists
    /\ Len(logs.entries) < MaxLog
    /\ logs' = LogFile("list",
                  Append(logs.entries,
                         Entry(Len(logs.entries) + 1, trace_file.trace,
                               "Test explanation", "Rejected")))
    /\ UNCHANGED <<trace_file, RULES, disk, session_state>>
    /\ UNCHANGED <<runVars, auxVars>>

----------------------------------------------------------------------------
(* The dashboard (ui/app.py) *)

\* the events run_live_simulation returns, oldest first
Emitted == <<T_Pump, T_Comp, T_NaN>>

\* the events a later simulation returns: the data is generated anew
EmittedLater == <<T_Comp, T_NoneFired, T_Pump>>

\* no trace: the event has not been analysed, or has no verdict
NoTrace == Trace(NoStr, << >>, << >>)

\* app.py:235-246.  Events are numbered from 1 here (from 0 in the code);
\* ai_feedback_state[i] = "" stands for `i not in ai_feedback_state`.
\* ai_analysis_cache is the set of keys of the dict; ai_analysis_of[i] is
\* the trace whose analysis is the value cached under i, and
\* ai_feedback_of[i] the trace that was displayed when the verdict of i was
\* given.
NoSession ==
    [simulation_results |-> << >>, active_event_idx |-> 1,
     ai_analysis_cache |-> {},
     ai_feedback_state |-> [i \in 1..Len(Emitted) |-> ""],
     ai_analysis_of |-> [i \in 1..Len(Emitted) |-> NoTrace],
     ai_feedback_of |-> [i \in 1..Len(Emitted) |-> NoTrace]]

\* the button "Run Simulation" (app.py:523-530)
run_simulation ==
    /\ session_state.simulation_results = << >>
    /\ session_state' = [session_state EXCEPT !.simulation_results = Emitted,
                                              !.active_event_idx = 1]
    /\ trace_file' = TraceFile(Emitted[1], TRUE)
    /\ UNCHANGED <<logs, RULES, disk>>
    /\ UNCHANGED <<runVars, auxVars>>

\* the button "Run Simulation" pressed when events are on display
\* (app.py:523-530): the results are replaced, the first event becomes the
\* active one and is exported; the two caches are left as they are.
run_simulation_again ==
    /\ session_state.simulation_results = Emitted
    /\ session_state' = [session_state EXCEPT
                            !.simulation_results = EmittedLater,
                            !.active_event_idx = 1]
    /\ trace_file' = TraceFile(EmittedLater[1], TRUE)
    /\ UNCHANGED <<logs, RULES, disk>>
    /\ UNCHANGED <<runVars, auxVars>>

\* the button "Event i" (app.py:507-517): set_tab and export_trace_to_llm
select_event(i) ==
    /\ i \in 1..Len(session_state.simulation_results)
    /\ i # session_state.active_event_idx
    /\ session_state' = [session_state EXCEPT !.active_event_idx = i]
    /\ trace_file' = TraceFile(session_state.simulation_results[i], TRUE)
    /\ UNCHANGED <<logs, RULES, disk>>
    /\ UNCHANGED <<runVars, auxVars>>

\* render_llm_panel when the active event has no analysis yet: run_ai_pipeline
\* runs the explainer on post_decision_trace.json, which logs the interaction
\* (log_interaction), and the result is cached.
run_ai_pipeline ==
    LET idx == session_state.active_event_idx
        old == LoadedLogs(logs)
    IN  /\ session_state.simulation_results # << >>
        /\ idx \notin session_state.ai_analysis_cache
        /\ trace_file.exists
        /\ Len(old) < MaxLog
        /\ logs' = LogFile("list",
                      Append(old, Entry(Len(old) + 1, trace_file.trace,
                                        "explanation", NoStr)))
        /\ session_state' =
              [session_state EXCEPT !.ai_analysis_cache = @ \cup {idx},
                                    !.ai_analysis_of[idx] = trace_file.trace]
        /\ UNCHANGED <<trace_file, RULES, disk>>
        /\ UNCHANGED <<runVars, auxVars>>

\* The explainer script run with ACTION=UPDATE_KB after an Accepted verdict:
\* the log with the verdict appended, attached to the trace of the trace file.
update_kb(file, tracefile) ==
    LET old == LoadedLogs(file)
    IN  LogFile("list", Append(old, Entry(Len(old) + 1, tracefile.trace,
                                          "explanation", "Accepted")))

\* handle_ai_feedback(idx, status), called by the buttons ACCEPT and REJECT,
\* which are shown for the active event once it is analysed and as long as
\* it has no verdict.
handle_ai_feedback(idx, status) ==
    /\ session_state.simulation_results # << >>
    /\ idx = session_state.active_event_idx
    /\ idx \in session_state.ai_analysis_cache
    /\ session_state.ai_feedback_state[idx] = ""
    /\ session_state' =
          [session_state EXCEPT
              !.ai_feedback_state[idx] = status,
              !.ai_feedback_of[idx] = session_state.simulation_results[idx]]
    /\ IF status = "Accepted"
       THEN /\ Len(LoadedLogs(logs)) < MaxLog
            /\ logs' = update_kb(logs, trace_file)
       ELSE logs' = logs
    /\ UNCHANGED <<trace_file, RULES, disk>>
    /\ UNCHANGED <<runVars, auxVars>>

----------------------------------------------------------------------------
(* The Rule Evaluation Engine: RuleEngine.evaluate, called by              *)
(* run_live_simulation on each selected feature event.  Confidence is in   *)
(* thousandths, like every other number.                                   *)

\* the features the rules of component c read
FeaturesOf(c) == {InitialRULES[c][j].feature : j \in 1..Len(InitialRULES[c])}

\* the threshold rules_config.py gives the rule of component c on feature n
InitialThreshold(c, n) ==
    LET j == CHOOSE k \in 1..Len(InitialRULES[c]) : InitialRULES[c][k].feature = n
    IN  InitialRULES[c][j].threshold

\* A reading of feature n of component c: half a unit under or over the
\* threshold of rules_config.py, or absent from the snapshot.
Reading(c, n, level) ==
    CASE level = "lo"      -> InitialThreshold(c, n) - 500
      [] level = "hi"      -> InitialThreshold(c, n) + 500
      [] level = "missing" -> None

\* A feature event: {component, timestamp, features: {name: value}}.
Snapshot(component, features) ==
    [component |-> component, features |-> features]

\* the feature events of component c
SnapshotsOf(c) ==
    {Snapshot(c, [n \in FeaturesOf(c) |-> Reading(c, n, lv[n])]) :
        lv \in [FeaturesOf(c) -> {"lo", "hi", "missing"}]}

\* the feature events run_live_simulation may select
Snapshots == UNION {SnapshotsOf(c) : c \in DOMAIN InitialRULES}

\* a snapshot of a component the catalog does not have
UnknownSnapshot == Snapshot("TURBINE", [n \in {"rpm"} |-> 3000])

\* featureValue <comparator> threshold
Compare(comparison, a, b) ==
    CASE comparison = ">"  -> Gt(a, b)
      [] comparison = "<"  -> Lt(a, b)
      [] comparison = ">=" -> a # NaN /\ b # NaN /\ a >= b
      [] comparison = "<=" -> a # NaN /\ b # NaN /\ a <= b

\* A plausible slip: the confidence is not clamped.
Clamp_none(c) == c

\* the closed range [0.0, 1.0]
Clamp(c) == IF c < 0 THEN 0 ELSE IF c > 1000 THEN 1000 ELSE c

\* the severity band of a confidence: the bands are scanned from the highest
\* lower bound downward and the first match wins
Band(confidence) ==
    IF confidence >= 900 THEN "critical"
    ELSE IF confidence >= 700 THEN "high"
    ELSE IF confidence >= 400 THEN "moderate"
    ELSE "low"

\* A plausible slip: the label is taken from the band alone.
Decision_band(confidence, fired) ==
    CASE Band(confidence) = "critical" -> "DANGER"
      [] Band(confidence) = "high"     -> "DANGER"
      [] Band(confidence) = "moderate" -> "BORDERLINE"
      [] OTHER                         -> "BORDERLINE"

\* the decision label: a function of the band and of whether any rule fired
Decision(confidence, fired) ==
    IF fired = << >> THEN "NORMAL"
    ELSE CASE Band(confidence) = "critical" -> "DANGER"
           [] Band(confidence) = "high"     -> "DANGER"
           [] Band(confidence) = "moderate" -> "BORDERLINE"
           [] OTHER                         -> "NORMAL"

\* the Reasoning Steps of the rules from rule i on, appended to steps
RECURSIVE EvalSteps(_, _, _, _)
EvalSteps(rules, features, i, steps) ==
    IF i > Len(rules) THEN steps
    ELSE
      LET rule     == rules[i]
          value    == features[rule.feature]
          fired    == Compare(rule.comparison, value, rule.threshold)
          previous == IF steps = << >> THEN 0
                      ELSE steps[Len(steps)].confidence_after_step
          step     == [step_id |-> i, rule |-> rule.rule,
                       feature |-> rule.feature, feature_value |-> value,
                       threshold |-> rule.threshold,
                       comparison |-> rule.comparison,
                       result |-> IF fired THEN "FIRED" ELSE "PASS",
                       confidence_after_step |->
                          IF fired THEN Clamp(previous + rule.confidence_delta)
                          ELSE previous]
      IN  EvalSteps(rules, features, i + 1, Append(steps, step))

IsFired(step) == step.result = "FIRED"

\* the names of the rules that fired, in step order
RulesTriggered(steps) ==
    LET fired == SelectSeq(steps, IsFired)
    IN  [k \in 1..Len(fired) |-> fired[k].rule]

\* A plausible slip: a rule whose feature is missing is skipped.
Evaluate_skipping(cat, snapshot) ==
    IF snapshot.component \notin DOMAIN cat
    THEN [raised |-> "UnknownComponent"]
    ELSE
      LET HasFeature(rule) ==
              /\ rule.feature \in DOMAIN snapshot.features
              /\ snapshot.features[rule.feature] # None
          steps == EvalSteps(SelectSeq(cat[snapshot.component], HasFeature),
                             snapshot.features, 1, << >>)
          final == IF steps = << >> THEN 0
                   ELSE steps[Len(steps)].confidence_after_step
      IN  [raised |-> "",
           trace |-> [component_id |-> snapshot.component,
                      reasoning_trace |-> steps,
                      final_confidence |-> final,
                      decision |-> Decision(final, RulesTriggered(steps)),
                      rules_triggered |-> RulesTriggered(steps)]]

\* Evaluate(snapshot) against the catalog cat: the exception raised, or the
\* Decision Trace returned.
Evaluate(cat, snapshot) ==
    IF snapshot.component \notin DOMAIN cat
    THEN [raised |-> "UnknownComponent"]
    ELSE IF \E j \in 1..Len(cat[snapshot.component]) :
               \/ cat[snapshot.component][j].feature
                     \notin DOMAIN snapshot.features
               \/ snapshot.features[cat[snapshot.component][j].feature] = None
    THEN [raised |-> "MissingFeature"]
    ELSE
      LET steps == EvalSteps(cat[snapshot.component], snapshot.features,
                             1, << >>)
          final == IF steps = << >> THEN 0
                   ELSE steps[Len(steps)].confidence_after_step
      IN  [raised |-> "",
           trace |-> [component_id |-> snapshot.component,
                      reasoning_trace |-> steps,
                      final_confidence |-> final,
                      decision |-> Decision(final, RulesTriggered(steps)),
                      rules_triggered |-> RulesTriggered(steps)]]

\* engine.evaluate(event) in run_live_simulation: the engine process has
\* imported rules_config.py as it is on disk.
evaluate(snapshot) ==
    /\ engine.calls = 0
    /\ Importable(disk)
    /\ engine' = [calls |-> 1, snapshot |-> snapshot,
                  catalog |-> LoadRules(disk),
                  returned |-> Evaluate(LoadRules(disk), snapshot)]
    /\ UNCHANGED <<fileVars, runVars, session_state, explainer, pipeline>>

\* A plausible slip: the engine keeps its list of steps between calls, so
\* the second trace continues the first.
evaluate_again_keeping ==
    /\ engine.calls = 1
    /\ Importable(disk)
    /\ engine' = [calls |-> 2, snapshot |-> engine.snapshot,
                  catalog |-> engine.catalog,
                  returned |-> engine.returned,
                  catalog_again |-> LoadRules(disk),
                  returned_again |->
                     LET r == Evaluate(LoadRules(disk), engine.snapshot)
                     IN  IF r.raised # "" \/ engine.returned.raised # "" THEN r
                         ELSE [r EXCEPT !.trace.reasoning_trace =
                                 engine.returned.trace.reasoning_trace \o @]]
    /\ UNCHANGED <<fileVars, runVars, session_state, explainer, pipeline>>

\* the same event evaluated a second time
evaluate_again ==
    /\ engine.calls = 1
    /\ Importable(disk)
    /\ engine' = [calls |-> 2, snapshot |-> engine.snapshot,
                  catalog |-> engine.catalog,
                  returned |-> engine.returned,
                  catalog_again |-> LoadRules(disk),
                  returned_again |-> Evaluate(LoadRules(disk), engine.snapshot)]
    /\ UNCHANGED <<fileVars, runVars, session_state, explainer, pipeline>>

----------------------------------------------------------------------------
(* The explainer (machine_explainer.py): the level of a score *)

\* machine_explainer.py:11-16, lower bounds in thousandths
SEVERITY_MAP ==
    << <<0, "low">>, <<400, "moderate">>, <<700, "high">>, <<900, "critical">> >>

\* A plausible slip: the bands are scanned from the lowest bound upward.
RECURSIVE score_to_level_forward(_, _)
score_to_level_forward(score, i) ==
    IF i = 0 THEN "low"
    ELSE LET k == Len(SEVERITY_MAP) + 1 - i
         IN  IF score # NaN /\ score >= SEVERITY_MAP[k][1]
             THEN SEVERITY_MAP[k][2]
             ELSE score_to_level_forward(score, i - 1)

\* MachineExplainer._score_to_level: for threshold, label in
\* reversed(SEVERITY_MAP), the first with score >= threshold; "low" when none.
\* i is the position the scan has reached, Len(SEVERITY_MAP) at the start.
RECURSIVE score_to_level(_, _)
score_to_level(score, i) ==
    IF i = 0 THEN "low"
    ELSE IF score # NaN /\ score >= SEVERITY_MAP[i][1] THEN SEVERITY_MAP[i][2]
    ELSE score_to_level(score, i - 1)

\* the scores a trace may carry: [0.0, 1.0], a little beyond either end, nan
Scores == ((0 - MaxBeyond)..(1000 + MaxBeyond)) \cup {NaN}

\* self._score_to_level(final_conf) in generate_explanation
level_of_score ==
    /\ ~explainer.applied
    /\ explainer' = [applied |-> TRUE, score |-> explainer.score,
                     level |-> score_to_level(explainer.score, Len(SEVERITY_MAP))]
    /\ UNCHANGED <<fileVars, runVars, session_state, engine, pipeline>>

----------------------------------------------------------------------------
(* The explanation pipeline: mt-llm/run_full_pipeline.py ("full") and      *)
(* run_ai_pipeline of ui/app.py ("app").  Both start the RAG stage          *)
(* (pipeline_logic/process_alert_workflow.py) and then the explainer stage  *)
(* (pipeline_logic/machine_explainer.py) as child processes and wait for    *)
(* each.  pipeline.stage is the position of the runner; pipeline.events is  *)
(* the history of what was started and how it ended.                        *)

Runners == {"full", "app"}

\* How a child process may end.  "ok": it did its work and exited with 0.
\* "notrace": process_alert_workflow.main could not load the alert trace,
\* logged it and returned, so the exit code is 0 and nothing was written.
\* "crash": an uncaught exception, exit code 1.  "nolaunch": subprocess.run
\* raised (FileNotFoundError for the interpreter).
RagOutcomes == {"ok", "notrace", "crash", "nolaunch"}
ExplainerOutcomes == {"ok", "crash", "nolaunch"}

\* the exit code of a child process that ended with outcome; None when it
\* never ran
ExitCode(outcome) ==
    CASE outcome \in {"ok", "notrace"} -> 0
      [] outcome = "crash"             -> 1
      [] OTHER                         -> None

Event(run, what) == [run |-> run, what |-> what]

\* the stage that ended with exit code 0
Exited0(stage_name) == stage_name \o "_exit_0"

\* A plausible slip: the exit code of a stage is not looked at.
StageSucceeded_always(runner, outcome) == outcome # "nolaunch"

\* run_script(...) is True / returncode == 0 without an exception
StageSucceeded(runner, outcome) == ExitCode(outcome) = 0

\* The explainer stage on the exported trace: the interaction is appended
\* to the Feedback Log with no verdict.
explain(file, tracefile) ==
    LET old == LoadedLogs(file)
    IN  IF tracefile.exists /\ Len(old) < MaxLog
        THEN LogFile("list", Append(old, Entry(Len(old) + 1, tracefile.trace,
                                               "explanation", NoStr)))
        ELSE file

\* main() of run_full_pipeline.py or run_ai_pipeline() is entered: the RAG
\* stage is started, unless run_ai_pipeline finds no input trace.
start_pipeline(runner) ==
    /\ pipeline.stage \in {"idle", "done"}
    /\ pipeline.count < MaxPipelines
    /\ LET run == pipeline.count + 1
       IN  IF runner = "app" /\ ~trace_file.exists
           THEN pipeline' = [pipeline EXCEPT !.stage = "done", !.runner = runner,
                                !.count = run,
                                !.report = "error: input trace missing"]
           ELSE pipeline' = [pipeline EXCEPT !.stage = "rag", !.runner = runner,
                                !.count = run, !.report = "",
                                !.events = Append(@, Event(run, "rag_started"))]
    /\ UNCHANGED <<fileVars, runVars, session_state, engine, explainer>>

\* the RAG stage ends and the runner goes on: it stops with a report, or it
\* starts the explainer stage
rag_finished(outcome) ==
    /\ pipeline.stage = "rag"
    /\ outcome = "ok" => trace_file.exists
    /\ outcome = "notrace" => ~trace_file.exists
    /\ LET run  == pipeline.count
           rec  == pipeline.recommendation \/ outcome = "ok"
           ev   == Append(pipeline.events,
                          Event(run, IF ExitCode(outcome) = 0 THEN Exited0("rag")
                                     ELSE "rag_failed"))
       IN  IF ~StageSucceeded(pipeline.runner, outcome)
           THEN pipeline' = [pipeline EXCEPT !.stage = "done", !.events = ev,
                                !.recommendation = rec,
                                !.report = IF pipeline.runner = "full"
                                           THEN "halted: error in RAG step"
                                           ELSE "error: RAG stage failed"]
           ELSE IF pipeline.runner = "full" /\ ~rec
           THEN pipeline' = [pipeline EXCEPT !.stage = "done", !.events = ev,
                                !.recommendation = rec,
                                !.report = "halted: no recommendation"]
           ELSE pipeline' = [pipeline EXCEPT !.stage = "explainer",
                                !.recommendation = rec,
                                !.events = Append(ev, Event(run, "explainer_started"))]
    /\ UNCHANGED <<fileVars, runVars, session_state, engine, explainer>>

\* the explainer stage ends and the runner reports
explainer_finished(outcome) ==
    /\ pipeline.stage = "explainer"
    /\ logs' = IF outcome = "ok" THEN explain(logs, trace_file) ELSE logs
    /\ LET run == pipeline.count
           ev  == Append(pipeline.events,
                         Event(run, IF ExitCode(outcome) = 0
                                    THEN Exited0("explainer")
                                    ELSE "explainer_failed"))
       IN  pipeline' = [pipeline EXCEPT !.stage = "done", !.events = ev,
                           !.report = IF StageSucceeded(pipeline.runner, outcome)
                                      THEN "results"
                                      ELSE IF pipeline.runner = "full"
                                      THEN "halted: error in Explainer step"
                                      ELSE "error: Explainer stage failed"]
    /\ UNCHANGED <<trace_file, RULES, disk, runVars, session_state, engine,
                   explainer>>

----------------------------------------------------------------------------
(* Specification *)

Init ==
    /\ logs \in {LogFile("missing", << >>), LogFile("list", << >>),
                 LogFile("malformed", <<OldEntry>>),
                 LogFile("notlist", <<OldEntry>>)}
    /\ trace_file \in {NoFile} \cup {TraceFile(t, FALSE) : t \in InitialTraces}
    /\ RULES = InitialRULES
    /\ disk = [state |-> "whole", text |-> JsonDumps(InitialRULES)]
    /\ rejection = NoEntry
    /\ alert_context = NoContext
    /\ adjustments = << >>
    /\ result = << >>
    /\ err = ""
    /\ update_calls = << >>
    /\ persist_calls = << >>
    /\ runs = 0
    /\ session_state = NoSession
    /\ engine = NoEval
    /\ explainer = NoLevel
    /\ pipeline = NoPipeline

Next ==
    \/ \E t \in TracePool : export_trace_to_llm(t)
    \/ \E t \in LogTraces : log_interaction(t, "explanation")
    \/ create_test_rejection
    \/ \E io \in IOOutcomes, ties \in [1..MaxSteps -> TieDirs] : main(io, ties)

Spec == Init /\ [][Next]_vars

----------------------------------------------------------------------------
(* The adjuster over a range of thresholds and readings: the log holds one *)
(* rejected alert of one step, as create_test_rejection leaves it.         *)

OldVals == (1..MaxOld) \cup {4000}
RvVals  == ((0 - MaxRv)..MaxRv) \cup {100, 4500, 100000, NaN}

NumTrace(old_threshold, feature_value) ==
    Trace("PUMP", <<"PUMP_OVERHEAT">>,
          << Step("PUMP_OVERHEAT", "temperature_c", feature_value,
                  old_threshold, "FIRED") >>)

InitNum ==
    /\ trace_file \in {TraceFile(NumTrace(o, v), TRUE) :
                         o \in OldVals, v \in RvVals}
    /\ logs = LogFile("list", << Entry(1, trace_file.trace,
                                       "Test explanation", "Rejected") >>)
    /\ RULES = InitialRULES
    /\ disk = [state |-> "whole", text |-> JsonDumps(InitialRULES)]
    /\ rejection = NoEntry
    /\ alert_context = NoContext
    /\ adjustments = << >>
    /\ result = << >>
    /\ err = ""
    /\ update_calls = << >>
    /\ persist_calls = << >>
    /\ runs = 0
    /\ session_state = NoSession
    /\ engine = NoEval
    /\ explainer = NoLevel
    /\ pipeline = NoPipeline

NextNum == \E io \in IOOutcomes, ties \in [1..MaxSteps -> TieDirs] : main(io, ties)

SpecNum == InitNum /\ [][NextNum]_vars

----------------------------------------------------------------------------
(* The dashboard and the adjuster: the operator looks at events, gives      *)
(* verdicts, and the adjuster script is run at any time.                    *)

InitUI ==
    /\ logs \in {LogFile("missing", << >>), LogFile("list", << >>)}
    /\ trace_file = NoFile
    /\ RULES = InitialRULES
    /\ disk = [state |-> "whole", text |-> JsonDumps(InitialRULES)]
    /\ rejection = NoEntry
    /\ alert_context = NoContext
    /\ adjustments = << >>
    /\ result = << >>
    /\ err = ""
    /\ update_calls = << >>
    /\ persist_calls = << >>
    /\ runs = 0
    /\ session_state = NoSession
    /\ engine = NoEval
    /\ explainer = NoLevel
    /\ pipeline = NoPipeline

NextUI ==
    \/ run_simulation
    \/ run_simulation_again
    \/ \E i \in 1..Len(Emitted) : select_event(i)
    \/ run_ai_pipeline
    \/ \E i \in 1..Len(Emitted), status \in {"Accepted", "Rejected"} :
          handle_ai_feedback(i, status)
    \/ \E io \in IOOutcomes, ties \in [1..MaxSteps -> TieDirs] : main(io, ties)

SpecUI == InitUI /\ [][NextUI]_vars

----------------------------------------------------------------------------
(* The engine and the adjuster: a rejected pump alert is in the log, events *)
(* are evaluated before and after the adjuster changes the catalog.         *)

InitEngine ==
    /\ trace_file = TraceFile(T_Pump, TRUE)
    /\ logs = LogFile("list", << Entry(1, T_Pump, "explanation", "Rejected") >>)
    /\ RULES = InitialRULES
    /\ disk = [state |-> "whole", text |-> JsonDumps(InitialRULES)]
    /\ rejection = NoEntry
    /\ alert_context = NoContext
    /\ adjustments = << >>
    /\ result = << >>
    /\ err = ""
    /\ update_calls = << >>
    /\ persist_calls = << >>
    /\ runs = 0
    /\ session_state = NoSession
    /\ engine = NoEval
    /\ explainer = NoLevel
    /\ pipeline = NoPipeline

NextEngine ==
    \/ \E snapshot \in Snapshots \cup {UnknownSnapshot} : evaluate(snapshot)
    \/ evaluate_again
    \/ \E ties \in [1..MaxSteps -> TieDirs] : main("ok", ties)

SpecEngine == InitEngine /\ [][NextEngine]_vars

----------------------------------------------------------------------------
(* The explainer on one score: the trace handed to generate_explanation     *)
(* carries any final_confidence.                                            *)

InitLevel ==
    /\ trace_file = NoFile
    /\ logs = LogFile("missing", << >>)
    /\ RULES = InitialRULES
    /\ disk = [state |-> "whole", text |-> JsonDumps(InitialRULES)]
    /\ rejection = NoEntry
    /\ alert_context = NoContext
    /\ adjustments = << >>
    /\ result = << >>
    /\ err = ""
    /\ update_calls = << >>
    /\ persist_calls = << >>
    /\ runs = 0
    /\ session_state = NoSession
    /\ engine = NoEval
    /\ explainer \in {[applied |-> FALSE, score |-> s] : s \in Scores}
    /\ pipeline = NoPipeline

NextLevel == level_of_score

SpecLevel == InitLevel /\ [][NextLevel]_vars

----------------------------------------------------------------------------
(* The pipeline run from the command line or from the dashboard, with or   *)
(* without an exported trace and with or without a final_recommendation.json*)
(* left by an earlier run.                                                  *)

InitPipeline ==
    /\ trace_file \in {NoFile, TraceFile(T_Pump, TRUE)}
    /\ logs = LogFile("list", << >>)
    /\ RULES = InitialRULES
    /\ disk = [state |-> "whole", text |-> JsonDumps(InitialRULES)]
    /\ rejection = NoEntry
    /\ alert_context = NoContext
    /\ adjustments = << >>
    /\ result = << >>
    /\ err = ""
    /\ update_calls = << >>
    /\ persist_calls = << >>
    /\ runs = 0
    /\ session_state = NoSession
    /\ engine = NoEval
    /\ explainer = NoLevel
    /\ pipeline \in {[NoPipeline EXCEPT !.recommendation = b] : b \in BOOLEAN}

\* The dashboard exports the trace of an event between two runs.
NextPipeline ==
    \/ /\ pipeline.stage \in {"idle", "done"}
       /\ \E trace \in {T_Pump, T_Comp} : export_trace_to_llm(trace)
    \/ \E runner \in Runners : start_pipeline(runner)
    \/ \E outcome \in RagOutcomes : rag_finished(outcome)
    \/ \E outcome \in ExplainerOutcomes : explainer_finished(outcome)

SpecPipeline == InitPipeline /\ [][NextPipeline]_vars

----------------------------------------------------------------------------
(* Properties *)

Records == {adjustments[i] : i \in 1..Len(adjustments)}
Calls   == {update_calls[i] : i \in 1..Len(update_calls)}

HasRejected(file) ==
    \E i \in 1..Len(LoadedLogs(file)) :
       LoadedLogs(file)[i].user_feedback = "Rejected"

\* C1: for every step with oldThreshold > 0, the new threshold computed and
\* stored by the adjuster never exceeds oldThreshold * 1.5.  (Both sides in
\* units of 1e-5.)
C1_NeverAboveCap ==
    \A r \in Records :
       r.old_threshold > 0 =>
          ~Gt(IF r.new_threshold = NaN THEN NaN ELSE r.new_threshold * 100,
              Times(r.old_threshold, MAX_INCREASE_RATIO))

\* C2, as stated: for every step with oldThreshold > 0 and any rejectedValue,
\* the new threshold stored never falls below rejectedValue.
C2_NeverBelowRejected ==
    \A r \in Records :
       r.old_threshold > 0 => ~Lt(r.new_threshold, r.rejected_value)

\* The candidate rejectedValue * 1.05 is within the cap oldThreshold * 1.5.
Uncapped(r) ==
    /\ r.rejected_value # NaN
    /\ ~Gt(Times(r.rejected_value, SAFETY_MARGIN),
           Times(r.old_threshold, MAX_INCREASE_RATIO))

\* C2, amended: for every step with oldThreshold > 0 whose rejectedValue is
\* >= 0 and whose candidate rejectedValue * 1.05 is within the cap, the new
\* threshold stored is at most 0.005 below rejectedValue, and not below it at
\* all when rejectedValue has at most 2 decimals; the value stored is the one
\* the record reports.
C2_NotBelowWhenUncapped ==
    \A r \in Records :
       (r.old_threshold > 0 /\ Uncapped(r) /\ r.rejected_value >= 0) =>
          /\ r.new_threshold >= r.rejected_value - 5
          /\ r.rejected_value % 10 = 0 => r.new_threshold >= r.rejected_value
          /\ get_threshold(RULES, r.component, r.rule) = r.new_threshold

\* C2 witness: the rejection of 4.5 against the threshold 4.0 has been
\* processed and the threshold stored is above 4.5.
C2_Witness ==
    \E r \in Records :
       /\ r.old_threshold = 4000 /\ r.rejected_value = 4500
       /\ r.new_threshold > 4500
       /\ get_threshold(RULES, "PUMP", "PUMP_OVERHEAT") = r.new_threshold

\* C3: when the feedback log holds no Rejected entry, an adjustment run
\* returns an empty record list and no error, calls neither UpdateThreshold
\* nor Persist, and leaves every threshold of the Catalog unchanged.
C3_NoRejectionNoChange ==
    [][(runs' # runs /\ ~HasRejected(logs)) =>
          /\ result' = << >> /\ adjustments' = << >> /\ err' = ""
          /\ update_calls' = << >> /\ persist_calls' = << >>
          /\ disk' = disk
          /\ RULES' = LoadRules(disk)]_vars

\* C3 witness: a run has ended on a log that holds entries, none of them
\* Rejected, while the trace file held a trace with adjustable steps.
C3_Witness ==
    /\ runs > 0 /\ rejection = NoEntry /\ err = ""
    /\ logs.kind = "list" /\ logs.entries # << >> /\ ~HasRejected(logs)
    /\ trace_file.exists /\ trace_file.trace = T_Comp

\* C4: the component and reasoning steps that an adjustment run adjusts are
\* those of the input trace stored in the latest Rejected log entry itself,
\* for every content of the log and of any other trace file.
C4_ContextIsEntryTrace ==
    rejection # NoEntry =>
       alert_context = [exists |-> TRUE, trace |-> rejection.input_trace]

\* e is the most recently appended Rejected entry of the log, NoEntry if
\* the log holds none.
LatestRejected(file, e) ==
    LET es == LoadedLogs(file)
    IN  IF HasRejected(file)
        THEN \E i \in 1..Len(es) :
                /\ e = es[i]
                /\ es[i].user_feedback = "Rejected"
                /\ \A j \in (i + 1)..Len(es) : es[j].user_feedback # "Rejected"
        ELSE e = NoEntry

\* C5: FindLatest for Rejected returns the most recently appended log entry
\* whose user_feedback is Rejected: no entry appended after the returned one
\* is Rejected, and None is returned only if no entry is Rejected.
C5_FindLatestRejected ==
    /\ [] LatestRejected(logs, find_latest_rejection(logs))
    /\ [][(runs' # runs /\ err' # "ImportError") =>
             LatestRejected(logs, rejection')]_vars

\* C5 witness: a run found a Rejected entry that is not the last entry of
\* the log.
C5_Witness ==
    /\ runs > 0 /\ rejection # NoEntry
    /\ logs.kind = "list" /\ Len(logs.entries) = 2
    /\ rejection = logs.entries[1]
    /\ logs.entries[2].user_feedback # "Rejected"

\* A value UpdateThreshold must refuse: non-finite or <= 0.
InvalidThreshold(v) == v = NaN \/ v <= 0

\* C6: UpdateThreshold never accepts a non-finite or <= 0 new value: such a
\* call fails and leaves the Catalog state unchanged (and the run goes on
\* with the next step).
C6_InvalidThresholdRefused ==
    \A c \in Calls :
       InvalidThreshold(c.value) => (~c.ok /\ c.after = c.before)

UniqueNames(cat) ==
    \A c \in DOMAIN cat : \A i, j \in 1..Len(cat[c]) :
       cat[c][i].rule = cat[c][j].rule => i = j

PositiveThresholds(cat) ==
    \A c \in DOMAIN cat : \A i \in 1..Len(cat[c]) :
       cat[c][i].threshold # NaN /\ cat[c][i].threshold > 0

\* C7: in every reachable Catalog state, after any sequence of adjustment
\* runs, rule names are unique within each component and every rule's
\* threshold is > 0.
C7_CatalogInvariant ==
    /\ UniqueNames(RULES) /\ PositiveThresholds(RULES)
    /\ Importable(disk) =>
          (UniqueNames(LoadRules(disk)) /\ PositiveThresholds(LoadRules(disk)))

\* The component and the rule of the call exist in the catalog.
Known(cat, component_id, rule_name) ==
    /\ component_id \in DOMAIN cat
    /\ \E j \in 1..Len(cat[component_id]) : cat[component_id][j].rule = rule_name

\* C8: UpdateThreshold returns false and changes nothing when the component
\* or the rule is unknown; otherwise it returns true and changes only the
\* threshold of that one rule: every other rule, every other field and the
\* rule order of the component stay unchanged.
C8_UpdateThresholdFrame ==
    \A c \in Calls :
       IF ~Known(c.before, c.component, c.rule)
       THEN ~c.ok /\ c.after = c.before
       ELSE /\ c.ok
            /\ DOMAIN c.after = DOMAIN c.before
            /\ \A k \in DOMAIN c.before :
                  /\ Len(c.after[k]) = Len(c.before[k])
                  /\ \A j \in 1..Len(c.before[k]) :
                        c.after[k][j] =
                           IF k = c.component /\ c.before[k][j].rule = c.rule
                           THEN [c.before[k][j] EXCEPT !.threshold = c.value]
                           ELSE c.before[k][j]

\* C8 witness: one run made a call for a rule the catalog does not have and
\* a call that changed a threshold.
C8_Witness ==
    /\ \E c \in Calls : ~c.ok /\ c.after = c.before
    /\ \E c \in Calls : c.ok /\ c.after # c.before

\* C9: Persist is all-or-nothing: if the write fails at any point, the
\* on-disk catalog is exactly what it was before the call.
C9_PersistAllOrNothing ==
    [][(runs' # runs /\ persist_calls' # << >> /\ ~persist_calls'[1].ok) =>
          disk' = disk]_vars

\* C10: persisting the Catalog and then reloading it yields a Catalog with
\* identical components, rule order, rule names, comparators, confidence
\* deltas and thresholds, for every Catalog reachable by adjustment runs.
C10_PersistReloadRoundTrip ==
    (persist_calls # << >> /\ persist_calls[1].ok) =>
       (Importable(disk) /\ LoadRules(disk) = RULES)

\* C11: the Catalog is persisted if and only if at least one adjustment of
\* the run succeeded; if that persistence fails, the run returns the
\* accumulated adjustment records together with the persistence error, never
\* an empty result or a silent success.
C11_PersistIffAdjusted ==
    /\ (persist_calls # << >>) <=> (adjustments # << >>)
    /\ (persist_calls # << >> /\ ~persist_calls[1].ok) =>
          (result = adjustments /\ result # << >> /\ err # "")

\* The step has a rule name, a feature value and a threshold (line 148).
Complete(step) ==
    step.rule # NoStr /\ step.feature_value # None /\ step.threshold # None

\* C12: a run attempts a threshold update for every reasoning step of the
\* rejected trace that has a rule name, a feature value and a threshold,
\* FIRED or PASS, in step order; the other steps are skipped without stopping
\* the run.
C12_EveryCompleteStepAttempted ==
    (runs > 0 /\ rejection # NoEntry /\ alert_context.exists
       /\ alert_context.trace.component_id # NoStr) =>
       LET cs == SelectSeq(alert_context.trace.reasoning_trace, Complete)
       IN  /\ Len(update_calls) = Len(cs)
           /\ \A k \in 1..Len(cs) : update_calls[k].rule = cs[k].rule

IsOk(call) == call.ok

\* C13: when UpdateThreshold returns false for a step, the run skips that
\* step, records no adjustment for it, and still processes every later step
\* of the trace.
C13_FailedUpdateDoesNotStopRun ==
    \A k \in 1..Len(update_calls) :
       ~update_calls[k].ok =>
          LET cs == SelectSeq(alert_context.trace.reasoning_trace, Complete)
          IN  /\ Len(adjustments) = Len(SelectSeq(update_calls, IsOk))
              /\ \A r \in Records : r.rule # update_calls[k].rule
              /\ Len(update_calls) = Len(cs)

\* The positions of the calls of update_threshold that returned True.
OkCalls ==
    SelectSeq([k \in 1..Len(update_calls) |-> k],
              LAMBDA k : update_calls[k].ok)

\* s is an initial part of t.
IsPrefix(s, t) == Len(s) <= Len(t) /\ s = SubSeq(t, 1, Len(s))

\* C14: after a run on a fresh adjuster the audit trail holds exactly one
\* record per successful UpdateThreshold call, in trace step order, each with
\* the step's rule, component, feature, oldThreshold, rejectedValue, the
\* newThreshold that was written to the Catalog and the fixed reason; the
\* trail after n + 1 steps extends the trail after n steps; a run that saved
\* returns the trail.
C14_AuditTrail ==
    /\ Len(adjustments) = Len(OkCalls)
    /\ update_calls # << >> =>
         LET trace == alert_context.trace
             cs    == SelectSeq(trace.reasoning_trace, Complete)
             first == LoopState(update_calls[1].before, << >>, << >>, "")
         IN  /\ \A j \in 1..Len(OkCalls) :
                   LET r == adjustments[j]
                       c == update_calls[OkCalls[j]]
                       s == cs[OkCalls[j]]
                   IN  /\ r.rule = s.rule /\ c.rule = s.rule
                       /\ r.component = trace.component_id
                       /\ c.component = trace.component_id
                       /\ r.feature = s.feature
                       /\ r.old_threshold = s.threshold
                       /\ r.rejected_value = s.feature_value
                       /\ r.new_threshold = c.value
                       /\ get_threshold(c.after, r.component, r.rule) = c.value
                       /\ r.reason = REASON
             /\ \A ties \in [1..MaxSteps -> TieDirs] :
                \A n \in 0..(Len(trace.reasoning_trace) - 1) :
                   IsPrefix(
                     ProcessSteps(SubSeq(trace.reasoning_trace, 1, n), 1,
                                  trace.component_id, ties, first).adjustments,
                     ProcessSteps(SubSeq(trace.reasoning_trace, 1, n + 1), 1,
                                  trace.component_id, ties, first).adjustments)
    /\ (persist_calls # << >> /\ persist_calls[1].ok) => result = adjustments

\* C14 witness: a run adjusted both steps of the pump trace and returned the
\* two records in step order.
C14_Witness ==
    /\ Len(adjustments) = 2 /\ Len(update_calls) = 2
    /\ adjustments[1].rule = "PUMP_VIBRATION_CRITICAL"
    /\ adjustments[2].rule = "PUMP_TEMP_SPIKE"
    /\ result = adjustments

\* C15: if the trace of the rejected entry lacks componentId or lacks
\* reasoningTrace, the run fails with MalformedTrace, an error the caller can
\* tell from 'nothing to adjust', and no threshold is changed.
C15_MalformedTraceReported ==
    (runs > 0 /\ rejection # NoEntry /\ alert_context.exists
       /\ (\/ alert_context.trace.component_id = NoStr
           \/ alert_context.trace.reasoning_trace = << >>)) =>
       /\ err # ""
       /\ update_calls = << >> /\ persist_calls = << >>

Min(a, b) == IF a < b THEN a ELSE b
Abs(a) == IF a < 0 THEN 0 - a ELSE a

\* C16: the new threshold equals min(rejectedValue * 1.05, oldThreshold * 1.5)
\* rounded to 2 decimal places, and it is the threshold stored: for
\* oldThreshold 4.0 and rejectedValue 4.5 it is 4.73, for oldThreshold 4.0
\* and rejectedValue 100 it is clamped to 6.0.  (The minimum in units of
\* 1e-5; rounded: a whole number of hundredths at most 0.005 away.)
C16_NewThresholdFormula ==
    \A r \in Records :
       (r.old_threshold > 0 /\ r.rejected_value # NaN) =>
          LET m == Min(r.rejected_value * 105, r.old_threshold * 150)
          IN  /\ r.new_threshold % 10 = 0
              /\ Abs(r.new_threshold * 100 - m) <= 500
              /\ get_threshold(RULES, r.component, r.rule) = r.new_threshold
              /\ (r.old_threshold = 4000 /\ r.rejected_value = 4500) =>
                    r.new_threshold = 4730
              /\ (r.old_threshold = 4000 /\ r.rejected_value = 100000) =>
                    r.new_threshold = 6000

\* C16 witness: the rejection of 4.5 against the threshold 4.0 has been
\* processed and the threshold stored is 4.73.
C16_Witness ==
    \E r \in Records :
       /\ r.old_threshold = 4000 /\ r.rejected_value = 4500
       /\ r.new_threshold = 4730
       /\ get_threshold(RULES, r.component, r.rule) = 4730

\* C17: one rejection moves the stored threshold of a rule by at most 50% of
\* the threshold the Catalog held for that rule immediately before the run;
\* the base of the cap (the old threshold of the record) is that current
\* Catalog threshold.
C17_MoveWithinHalfOfCatalog ==
    \A j \in 1..Len(OkCalls) :
       LET c == update_calls[OkCalls[j]]
           b == get_threshold(c.before, c.component, c.rule)
       IN  (b # NaN /\ b > 0) =>
              /\ c.value # NaN
              /\ 2 * Abs(c.value - b) <= b
              /\ adjustments[j].old_threshold = b

\* C18: the feedback log is append-only: after any Append the log is the log
\* before the call followed by the new entry; no earlier entry is removed,
\* reordered or altered, whatever the file held before.
C18_LogAppendOnly ==
    [][logs' # logs =>
          /\ logs'.kind = "list"
          /\ Len(logs'.entries) = Len(logs.entries) + 1
          /\ SubSeq(logs'.entries, 1, Len(logs.entries)) = logs.entries]_vars

\* C19: a missing, malformed or non-list feedback log is treated as an empty
\* log by FindLatest: the result is not found and no error is raised, so the
\* run ends with an empty result; and a run never modifies the log file.
C19_UnreadableLogIsEmpty ==
    /\ [](logs.kind # "list" => find_latest_rejection(logs) = NoEntry)
    /\ [][runs' # runs => logs' = logs]_vars
    /\ [][(runs' # runs /\ logs.kind # "list" /\ Importable(disk)) =>
             /\ rejection' = NoEntry /\ err' = ""
             /\ result' = << >> /\ update_calls' = << >>]_vars

\* C19 witness: a run has ended on a malformed log file whose text holds a
\* Rejected entry, while the trace file held a trace.
C19_Witness ==
    /\ runs > 0 /\ logs.kind = "malformed" /\ logs.entries # << >>
    /\ trace_file.exists /\ rejection = NoEntry /\ err = ""

\* C20: a Rejected (or Accepted) verdict given by the user for an emitted
\* trace is appended to the Feedback Log, attached to that trace, before any
\* adjustment run that follows the verdict is invoked: when a run starts, the
\* log holds an entry with that trace and that verdict for every verdict
\* given so far.
C20_VerdictLoggedBeforeRun ==
    [][runs' # runs =>
          \A i \in 1..Len(session_state.simulation_results) :
             LET v  == session_state.ai_feedback_state[i]
                 es == LoadedLogs(logs)
             IN  v # "" =>
                    \E k \in 1..Len(es) :
                       /\ es[k].input_trace = session_state.simulation_results[i]
                       /\ es[k].user_feedback = v]_vars

\* what the calls of Evaluate returned so far
Returned ==
    (IF engine.calls >= 1 THEN {engine.returned} ELSE {})
       \cup (IF engine.calls >= 2 THEN {engine.returned_again} ELSE {})

\* the Decision Traces returned so far
ReturnedTraces == {r.trace : r \in {x \in Returned : x.raised = ""}}

\* C21: in every Decision Trace, confidenceAfterStep is non-decreasing from
\* step to step and always within [0.0, 1.0], however many rules fire;
\* finalConfidence equals the confidenceAfterStep of the last step, or 0.0
\* when the component has no rules.
C21_ConfidenceMonotoneAndBounded ==
    \A t \in ReturnedTraces :
       LET steps == t.reasoning_trace
       IN  /\ \A i \in 1..Len(steps) :
                /\ steps[i].confidence_after_step >= 0
                /\ steps[i].confidence_after_step <= 1000
                /\ i > 1 => steps[i].confidence_after_step
                               >= steps[i - 1].confidence_after_step
           /\ t.final_confidence =
                 IF steps = << >> THEN 0
                 ELSE steps[Len(steps)].confidence_after_step

\* C21 witness: a trace in which all four rules of the pump fired (the
\* deltas add up to 1.25) and the confidence ended at 1.0.
C21_Witness ==
    \E t \in ReturnedTraces :
       /\ t.component_id = "PUMP" /\ Len(t.rules_triggered) = 4
       /\ t.final_confidence = 1000

\* C22: for every snapshot in which no rule of the component fires, Evaluate
\* returns decision NORMAL and finalConfidence 0.0.
C22_NoFiredRuleIsNormal ==
    \A t \in ReturnedTraces :
       (\A i \in 1..Len(t.reasoning_trace) :
           t.reasoning_trace[i].result # "FIRED") =>
          (t.decision = "NORMAL" /\ t.final_confidence = 0)

\* C22 witness: a trace of four steps, none of which fired.
C22_Witness ==
    \E t \in ReturnedTraces :
       /\ Len(t.reasoning_trace) = 4
       /\ \A i \in 1..4 : t.reasoning_trace[i].result = "PASS"
       /\ t.decision = "NORMAL"

\* the snapshot has a reading for the feature of every rule of the component
HasAllFeatures(cat, snapshot) ==
    \A j \in 1..Len(cat[snapshot.component]) :
       /\ cat[snapshot.component][j].feature \in DOMAIN snapshot.features
       /\ snapshot.features[cat[snapshot.component][j].feature] # None

\* the call of Evaluate on snapshot against cat returned r, whole or not at all
WholeOrNothing(cat, snapshot, r) ==
    IF snapshot.component \notin DOMAIN cat
    THEN r = [raised |-> "UnknownComponent"]
    ELSE IF ~HasAllFeatures(cat, snapshot)
    THEN r = [raised |-> "MissingFeature"]
    ELSE /\ r.raised = ""
         /\ Len(r.trace.reasoning_trace) = Len(cat[snapshot.component])
         /\ \A i \in 1..Len(r.trace.reasoning_trace) :
               /\ r.trace.reasoning_trace[i].step_id = i
               /\ r.trace.reasoning_trace[i].rule =
                     cat[snapshot.component][i].rule

\* C24: Evaluate never returns a partial trace: an unknown component or a
\* feature missing from the snapshot aborts the call with UnknownComponent or
\* MissingFeature, and every returned trace has exactly one step per rule
\* configured for the component, with 1-based sequential stepIds in Catalog
\* order.
C24_NoPartialTrace ==
    /\ engine.calls >= 1 =>
          WholeOrNothing(engine.catalog, engine.snapshot, engine.returned)
    /\ engine.calls >= 2 =>
          WholeOrNothing(engine.catalog_again, engine.snapshot,
                         engine.returned_again)

\* C24 witness: a call on a snapshot of a known component that lacks a
\* feature was aborted with MissingFeature.
C24_Witness ==
    /\ engine.calls >= 1
    /\ engine.snapshot.component \in DOMAIN engine.catalog
    /\ engine.returned = [raised |-> "MissingFeature"]

BandOfScore(score) ==
    CASE score >= 0   /\ score < 400   -> "low"
      [] score >= 400 /\ score < 700   -> "moderate"
      [] score >= 700 /\ score < 900   -> "high"
      [] score >= 900 /\ score <= 1000 -> "critical"

\* C23: the severity band of a confidence score is the highest band whose
\* lower bound is <= the score: scores in [0.0,0.4) map to low, [0.4,0.7) to
\* moderate, [0.7,0.9) to high and [0.9,1.0] to critical, with 0.4, 0.7 and
\* 0.9 belonging to the upper band.
C23_SeverityBands ==
    (explainer.applied /\ explainer.score >= 0 /\ explainer.score <= 1000) =>
       /\ explainer.level = BandOfScore(explainer.score)
       /\ \E i \in 1..Len(SEVERITY_MAP) :
             /\ SEVERITY_MAP[i][2] = explainer.level
             /\ SEVERITY_MAP[i][1] <= explainer.score
             /\ \A j \in 1..Len(SEVERITY_MAP) :
                   SEVERITY_MAP[j][1] <= explainer.score =>
                      SEVERITY_MAP[j][1] <= SEVERITY_MAP[i][1]

\* C23 witness: the score 0.7, a lower bound, was given the level high.
C23_Witness ==
    explainer.applied /\ explainer.score = 700 /\ explainer.level = "high"

\* the events of one run of the pipeline, oldest first
EventsOf(run) ==
    LET IsOfRun(e) == e.run = run
        es == SelectSeq(pipeline.events, IsOfRun)
    IN  [k \in 1..Len(es) |-> es[k].what]

\* C26: in the mt-llm pipeline the explainer stage is started only after the
\* RAG stage has finished with exit code 0 (and, in run_full_pipeline, only
\* if final_recommendation.json exists); if the RAG stage fails the explainer
\* is never run and the pipeline reports the failure instead of results.
C26_ExplainerOnlyAfterRag ==
    /\ \A run \in 1..pipeline.count :
          LET es == EventsOf(run)
          IN  /\ \A k \in 1..Len(es) :
                    es[k] = "explainer_started" =>
                       k = 3 /\ es[1] = "rag_started" /\ es[2] = Exited0("rag")
              /\ (Len(es) >= 2 /\ es[2] = "rag_failed") => Len(es) = 2
    /\ (pipeline.stage = "explainer" /\ pipeline.runner = "full") =>
          pipeline.recommendation
    /\ (pipeline.stage = "done" /\ EventsOf(pipeline.count) # << >>
           /\ EventsOf(pipeline.count)[2] = "rag_failed") =>
          pipeline.report \in {"halted: error in RAG step",
                               "error: RAG stage failed"}

\* C26 witness: in one behaviour a RAG stage ended with a non-zero exit code
\* and the run stopped there, and another run went on to the explainer.
C26_Witness ==
    /\ pipeline.count = 2 /\ pipeline.stage = "done"
    /\ EventsOf(1) = <<"rag_started", "rag_failed">>
    /\ Len(EventsOf(2)) = 4 /\ pipeline.report = "results"

\* Python's >= on floats: every comparison with nan is False.
Ge(a, b) == a # NaN /\ b # NaN /\ a >= b

\* C27: an adjustment never lowers a rule's threshold: for every step
\* adjusted, the value written to the Catalog is >= both the step's old
\* threshold and the threshold the Catalog held for that rule before the run
\* (including steps whose result was PASS).
C27_NeverLowersThreshold ==
    \A j \in 1..Len(OkCalls) :
       LET c == update_calls[OkCalls[j]]
       IN  /\ Ge(c.value, adjustments[j].old_threshold)
           /\ Ge(c.value, get_threshold(c.before, c.component, c.rule))

\* The step carries a numeric feature_value and a numeric threshold.
NumericStep(step) ==
    /\ step.rule # NoStr
    /\ step.feature_value \notin {None, NaN}
    /\ step.threshold \notin {None, NaN}

\* C28: process_rejection never aborts with an exception part-way through a
\* trace: for every trace whose steps carry a numeric feature_value and a
\* numeric threshold (including a threshold of 0), each step is either
\* applied or skipped and all later steps are still processed.
C28_NeverAbortsMidTrace ==
    (runs > 0 /\ rejection # NoEntry /\ alert_context.exists
       /\ alert_context.trace.component_id # NoStr
       /\ alert_context.trace.rules_triggered # << >>
       /\ \A i \in 1..Len(alert_context.trace.reasoning_trace) :
             NumericStep(alert_context.trace.reasoning_trace[i])) =>
       /\ err = ""
       /\ \A i \in 1..Len(alert_context.trace.reasoning_trace) :
             \E c \in Calls : c.rule = alert_context.trace.reasoning_trace[i].rule

\* A run is about to start on the log and the trace file the previous run
\* used: the same latest rejection and the same alert context.
SameInputsAgain ==
    /\ runs >= 1 /\ runs' = runs + 1
    /\ rejection # NoEntry
    /\ find_latest_rejection(logs) = rejection
    /\ get_alert_context(trace_file, rejection) = alert_context

\* C29: re-running the adjuster with an unchanged feedback log and trace is
\* idempotent on the Catalog: the thresholds after the second run equal those
\* after the first run, although the same rejection is processed again and
\* produces adjustment records again.
C29_RerunIdempotent ==
    [][SameInputsAgain =>
          /\ RULES' = RULES
          /\ rejection' = rejection
          /\ adjustments' = adjustments]_vars

\* C30: in the dashboard, after any sequence of Run Simulation, event-tab
\* clicks and Accept/Reject clicks, the AI analysis and the recorded feedback
\* shown for the active event index were produced for the trace currently
\* displayed at that index, and the exported post_decision_trace.json holds
\* the trace of the active event.
C30_ShownBelongsToDisplayedTrace ==
    session_state.simulation_results # << >> =>
       LET idx   == session_state.active_event_idx
           shown == session_state.simulation_results[idx]
       IN  /\ idx \in session_state.ai_analysis_cache =>
                 session_state.ai_analysis_of[idx] = shown
           /\ session_state.ai_feedback_state[idx] # "" =>
                 session_state.ai_feedback_of[idx] = shown
           /\ trace_file.exists /\ trace_file.trace = shown

====
